---- MODULE Spec2Model ----
(***************************************************************************)
(* Model of the dali-interface driver: the abstract engine DaliInterface   *)
(* (bounded queue, background receive thread, get / flush_queue / close)   *)
(* and the serial binding DaliSerial (parse, status classification,        *)
(* read_data, loopback-checked transmit and query_reply).                  *)
(*                                                                         *)
(* Strings are sequences of one-character strings, so that find, slicing,  *)
(* strip, int(.., 16) and the hexadecimal formatting of the f-strings are  *)
(* computed rather than assumed.                                           *)
(***************************************************************************)
EXTENDS Integers, Sequences, FiniteSets, TLC

(***************************************************************************)
(* Bounds of the model.                                                    *)
(***************************************************************************)
\* capacity of the input queue (the constructor's max_queue_size, 40 in
\* the code; two places are enough for the order of the frames to show)
max_queue_size == 2
\* number of non-empty lines the transport delivers in one behaviour
MaxLines == 2
\* number of API calls the consumer threads make in one behaviour
MaxCalls == 2

(***************************************************************************)
(* DaliStatus (IntEnum) and DaliFrame (NamedTuple).                        *)
(***************************************************************************)
DaliStatus ==
    [OK |-> 0, LOOPBACK |-> 1, FRAME |-> 2, TIMEOUT |-> 3, TIMING |-> 4,
     INTERFACE |-> 5, FAILURE |-> 6, RECOVER |-> 7, GENERAL |-> 8,
     UNDEFINED |-> 9]

\* A timestamp is a number of seconds with three decimals, kept as
\* <<whole seconds, thousandths>>; the default 0 is <<0, 0>>.
ZeroTime == <<0, 0>>

\* DaliFrame(...) with the defaults of the NamedTuple for the fields that
\* are not given.
DaliFrame(timestamp, length, data, status, message) ==
    [timestamp |-> timestamp, length |-> length, data |-> data,
     priority |-> 2, send_twice |-> FALSE, status |-> status,
     message |-> message]

\* A frame as a caller builds it for transmit / query_reply.
RequestFrame(length, data, priority, send_twice) ==
    [timestamp |-> ZeroTime, length |-> length, data |-> data,
     priority |-> priority, send_twice |-> send_twice,
     status |-> DaliStatus.OK, message |-> <<"OK">>]

(***************************************************************************)
(* Python string primitives.                                               *)
(***************************************************************************)
Min(a, b) == IF a < b THEN a ELSE b
Max(a, b) == IF a > b THEN a ELSE b

\* the 0-based index of the first occurrence of ch at or after the
\* 1-based position i, -1 if none
RECURSIVE FindFrom(_, _, _)
FindFrom(s, ch, i) ==
    IF i > Len(s) THEN -1
    ELSE IF s[i] = ch THEN i - 1
    ELSE FindFrom(s, ch, i + 1)

\* str.find(ch): the 0-based index of the first occurrence, -1 if none.
Find(s, ch) == FindFrom(s, ch, 1)

\* s[a:b] with Python's treatment of negative and out-of-range indices.
Slice(s, a, b) ==
    LET n  == Len(s)
        lo == IF a < 0 THEN Max(a + n, 0) ELSE Min(a, n)
        hi == IF b < 0 THEN Max(b + n, 0) ELSE Min(b, n)
    IN  IF lo >= hi THEN <<>> ELSE SubSeq(s, lo + 1, hi)

Whitespace == {" ", "\t", "\n", "\r", "\f"}

RECURSIVE LStrip(_)
LStrip(s) ==
    IF s # <<>> /\ Head(s) \in Whitespace THEN LStrip(Tail(s)) ELSE s

RECURSIVE RStrip(_)
RStrip(s) ==
    IF s # <<>> /\ s[Len(s)] \in Whitespace
    THEN RStrip(SubSeq(s, 1, Len(s) - 1))
    ELSE s

\* str.strip()
Strip(s) == RStrip(LStrip(s))

HexChars ==
    <<"0", "1", "2", "3", "4", "5", "6", "7", "8", "9",
      "A", "B", "C", "D", "E", "F">>

\* the value of a hexadecimal digit, -1 for any other character
HexVal(c) ==
    CASE c = "0" -> 0 [] c = "1" -> 1 [] c = "2" -> 2 [] c = "3" -> 3
      [] c = "4" -> 4 [] c = "5" -> 5 [] c = "6" -> 6 [] c = "7" -> 7
      [] c = "8" -> 8 [] c = "9" -> 9
      [] c = "A" \/ c = "a" -> 10 [] c = "B" \/ c = "b" -> 11
      [] c = "C" \/ c = "c" -> 12 [] c = "D" \/ c = "d" -> 13
      [] c = "E" \/ c = "e" -> 14 [] c = "F" \/ c = "f" -> 15
      [] OTHER -> -1

IsHexDigit(c) == HexVal(c) >= 0

\* The digits of an integer literal: hexadecimal digits with single
\* underscores between them.
RECURSIVE DigitsOk(_, _)
DigitsOk(s, prevDigit) ==
    IF s = <<>> THEN prevDigit
    ELSE IF IsHexDigit(Head(s)) THEN DigitsOk(Tail(s), TRUE)
    ELSE IF Head(s) = "_" THEN prevDigit /\ DigitsOk(Tail(s), FALSE)
    ELSE FALSE

RECURSIVE DigitsVal(_, _)
DigitsVal(s, acc) ==
    IF s = <<>> THEN acc
    ELSE IF Head(s) = "_" THEN DigitsVal(Tail(s), acc)
    ELSE DigitsVal(Tail(s), 16 * acc + HexVal(Head(s)))

\* int(s, 16): [ok |-> FALSE] stands for ValueError.  Surrounding
\* whitespace, a sign, a 0x prefix and underscores are accepted as
\* Python accepts them.
Int16(s) ==
    LET t      == Strip(s)
        signed == t # <<>> /\ Head(t) \in {"+", "-"}
        u      == IF signed THEN Tail(t) ELSE t
        prefix == Len(u) >= 2 /\ u[1] = "0" /\ u[2] \in {"x", "X"}
        v      == IF prefix THEN SubSeq(u, 3, Len(u)) ELSE u
        w      == IF prefix /\ v # <<>> /\ Head(v) = "_" THEN Tail(v) ELSE v
        ok     == w # <<>> /\ IsHexDigit(Head(w)) /\ DigitsOk(w, FALSE)
        mag    == DigitsVal(w, 0)
    IN  IF ok
        THEN [ok |-> TRUE, val |-> IF signed /\ Head(t) = "-" THEN 0 - mag ELSE mag]
        ELSE [ok |-> FALSE, val |-> 0]

DecChars == <<"0", "1", "2", "3", "4", "5", "6", "7", "8", "9">>

RECURSIVE DigitsOf(_, _, _)
DigitsOf(n, base, chars) ==
    IF n < base THEN <<chars[n + 1]>>
    ELSE Append(DigitsOf(n \div base, base, chars), chars[(n % base) + 1])

\* f"{n}" for an integer
Dec(n) ==
    IF n < 0 THEN <<"-">> \o DigitsOf(0 - n, 10, DecChars)
    ELSE DigitsOf(n, 10, DecChars)

\* a number formatted without the X
HexAsDec(n) == Dec(n)

\* f"{n:X}": uppercase hexadecimal, no padding
Hex(n) ==
    IF n < 0 THEN <<"-">> \o DigitsOf(0 - n, 16, HexChars)
    ELSE DigitsOf(n, 16, HexChars)

RECURSIVE ZeroPad(_, _)
ZeroPad(s, width) == IF Len(s) >= width THEN s ELSE ZeroPad(<<"0">> \o s, width)

\* f"{n:02X}": the sign comes first, zeros fill up to the width
Hex02(n) ==
    IF n < 0 THEN <<"-">> \o ZeroPad(DigitsOf(0 - n, 16, HexChars), 1)
    ELSE ZeroPad(DigitsOf(n, 16, HexChars), 2)

(***************************************************************************)
(* DaliSerial: the device's status codes, the status classifier, parse.    *)
(***************************************************************************)
MAX_BIT_LENGTH == 32
TIMEOUT_CODE == 129
BAD_START_BIT_TIMING == 130
BAD_DATA_BIT_TIMING == 131
COLLISION_LOOPBACK == 132
COLLISION_NO_CHANGE == 133
COLLISION_WRONG_STATE == 134
SYSTEM_FAILURE == 145
SYSTEM_RECOVERED == 146
COMMAND_NOT_PROCESSED == 160
COMMAND_BAD_ARGUMENT == 161
QUEUE_IS_FULL == 162
COMMAND_BAD == 163

\* data & 0x0FF
BitOf(data) == data % 256

\* a timer value taken from the low bits, the shift forgotten
TimerUsUnshifted(data) == data % 1048576

\* (data >> 8) & 0x0FFFFF  (>> is the floor division, also below zero)
TimerUsOf(data) == (data \div 256) % 1048576

\* the codes of `length in (_COLLISION_LOOPBACK, ...)`
CollisionCodes ==
    {COLLISION_LOOPBACK, COLLISION_NO_CHANGE, COLLISION_WRONG_STATE}

\* a list of interface codes that misses the last one
InterfaceCodesShort ==
    {COMMAND_NOT_PROCESSED, COMMAND_BAD_ARGUMENT, QUEUE_IS_FULL}

\* the codes of `length in (_COMMAND_NOT_PROCESSED, ...)`
InterfaceCodes ==
    {COMMAND_NOT_PROCESSED, COMMAND_BAD_ARGUMENT, QUEUE_IS_FULL, COMMAND_BAD}

\* __get_status_and_last_error(length, data, loopback) -> (status, message)
\* A message is the sequence of the pieces of its f-string.
GetStatusAndLastError(length, data, loopback) ==
    IF 0 <= length /\ length <= MAX_BIT_LENGTH
    THEN IF loopback
         THEN <<DaliStatus.LOOPBACK, <<"LOOPBACK FRAME">>>>
         ELSE <<DaliStatus.FRAME, <<"NORMAL FRAME">>>>
    ELSE IF length < TIMEOUT_CODE THEN <<DaliStatus.OK, <<"OK">>>>
    ELSE IF length = TIMEOUT_CODE THEN <<DaliStatus.TIMEOUT, <<"TIMEOUT">>>>
    ELSE IF length = BAD_START_BIT_TIMING
    THEN <<DaliStatus.TIMING,
           <<"ERROR TIMING: START - BIT: ">> \o Dec(BitOf(data))
              \o <<" - TIME: ">> \o Dec(TimerUsOf(data)) \o <<" USEC">>>>
    ELSE IF length = BAD_DATA_BIT_TIMING
    THEN <<DaliStatus.TIMING,
           <<"ERROR TIMING: DATA - BIT: ">> \o Dec(BitOf(data))
              \o <<" - TIME: ">> \o Dec(TimerUsOf(data)) \o <<" USEC">>>>
    ELSE IF length \in CollisionCodes
    THEN <<DaliStatus.TIMING, <<"ERROR: COLLISION DETECTED">>>>
    ELSE IF length = SYSTEM_FAILURE
    THEN <<DaliStatus.FAILURE, <<"ERROR: SYSTEM FAILURE">>>>
    ELSE IF length = SYSTEM_RECOVERED
    THEN <<DaliStatus.RECOVER, <<"SYSTEM RECOVER">>>>
    ELSE IF length \in InterfaceCodes
    THEN <<DaliStatus.INTERFACE, <<"ERROR: INTERFACE">>>>
    ELSE <<DaliStatus.UNDEFINED, <<"ERROR: CODE 0x">> \o Hex02(length)>>

\* int(..., 16) / 1000.0
Seconds(ms) == <<ms \div 1000, ms % 1000>>

\* the frame of the except ValueError branch
ValueErrorFrame(timestamp, length, data) ==
    DaliFrame(timestamp, length, data, DaliStatus.GENERAL, <<"value error">>)

\* parse(line): [exc |-> "none", frame |-> f] when it returns f, and
\* [exc |-> "IndexError", ...] when payload[8] raises, which the
\* except ValueError clause does not catch.
Parse(line) ==
    LET start   == Find(line, "{") + 1
        end     == Find(line, "}")
        payload == Slice(line, start, end)
        ts      == Int16(Slice(payload, 0, 8))
        timestamp == Seconds(ts.val)
        len     == Int16(Slice(payload, 9, 11))
        dat     == Int16(Slice(payload, 12, 20))
        loopback == payload[9] = ">"
        sm      == GetStatusAndLastError(len.val, dat.val, loopback)
    IN  IF ~ts.ok
        THEN [exc |-> "none", frame |-> ValueErrorFrame(ZeroTime, 0, 0)]
        ELSE IF Len(payload) < 9
        THEN [exc |-> "IndexError", frame |-> ValueErrorFrame(timestamp, 0, 0)]
        ELSE IF ~len.ok
        THEN [exc |-> "none", frame |-> ValueErrorFrame(timestamp, 0, 0)]
        ELSE IF ~dat.ok
        THEN [exc |-> "none", frame |-> ValueErrorFrame(timestamp, len.val, 0)]
        ELSE [exc |-> "none",
              frame |-> DaliFrame(timestamp, len.val, dat.val, sm[1], sm[2])]

(***************************************************************************)
(* The command encoder.                                                    *)
(***************************************************************************)
\* an encoder that knows no backward frames
IsBackwardNever(frame) == FALSE

\* `if frame.length == 8:`
IsBackward(frame) == frame.length = 8

\* build_command_string(frame, is_query)
build_command_string(frame, is_query) ==
    IF IsBackward(frame)
    THEN <<"Y">> \o Hex(frame.data) \o <<"\r">>
    ELSE LET command == IF is_query THEN "Q" ELSE "S"
             twice   == IF frame.send_twice THEN "+" ELSE " "
         IN  <<command>> \o Dec(frame.priority) \o <<" ">> \o Hex(frame.length)
                \o <<twice>> \o Hex(frame.data) \o <<"\r">>

(***************************************************************************)
(* The state of one DaliSerial object, its background thread and the       *)
(* threads that call it.                                                   *)
(***************************************************************************)
VARIABLES
    queue,         \* self.queue: the frames in it, oldest first
    keep_running,  \* self.keep_running
    thread,        \* self.thread: where the background thread stands
    rx,            \* the frame the background thread is putting
    port,          \* the command string written to self.port last
    pc,            \* where each calling thread stands: <<label>>, and
                   \* <<label, site>> inside get, site being the place
                   \* of the call of get
    call,          \* the call each calling thread is in, or made last
    result,        \* how that call ended and what it returned
    trace,         \* what the call did so far: flush, write, loopback
                   \* checks and gets, in the order they happened
    constructed,   \* __init__ has returned
    closed,        \* a close() that found the engine running has returned
    nlines,        \* the non-empty lines read_data has read
    nput,          \* the frames the background thread has enqueued
    ncalls,        \* the calls made
    nthreads       \* the threads started by threading.Thread(...).start()

vars ==
    <<queue, keep_running, thread, rx, port, pc, call, result, trace,
      constructed, closed, nlines, nput, ncalls, nthreads>>

\* The calling threads.  Main constructs the object and drives it
\* (transmit, query_reply, flush_queue, close: callers serialize these);
\* every thread, Main too, consumes frames with get.
Main == "t1"
Threads == {"t1", "t2"}

\* Python's None
None == [none |-> TRUE]

RECEIVE_TIMEOUT == 1

\* The arguments the calling threads use.
Requests == {RequestFrame(16, 1, 2, FALSE), RequestFrame(24, 1, 2, TRUE)}

\* get's timeout: <<>> is None (wait for ever), <<t>> is t seconds
Timeouts == {<<>>, <<-1>>, <<0>>}

\* What self.port.readline() can return: <<>> is the read timeout of
\* 0.2 s.  EchoLine is the loopback of a 16 bit frame with data 1,
\* OtherEchoLine the loopback of a 24 bit frame with data 2, ReplyLine a
\* backward frame with data 1, ShortLine a payload that ends after its
\* timestamp digits.
EchoLine ==
    <<"{", "0", "0", "0", "0", "0", "0", "0", "1", ">", "1", "0", " ",
      "0", "0", "0", "0", "0", "0", "0", "1", "}", "\r", "\n">>
OtherEchoLine ==
    <<"{", "0", "0", "0", "0", "0", "0", "0", "2", ">", "1", "8", " ",
      "0", "0", "0", "0", "0", "0", "0", "2", "}", "\r", "\n">>
ReplyLine ==
    <<"{", "0", "0", "0", "0", "0", "0", "0", "3", "-", "0", "8", " ",
      "0", "0", "0", "0", "0", "0", "0", "1", "}", "\r", "\n">>
ShortLine == <<"{", "1", "2", "}", "\r", "\n">>
BlankLine == <<"\r", "\n">>

TransportLines ==
    {<<>>, BlankLine, EchoLine, OtherEchoLine, ReplyLine, ShortLine}

\* a close that does not wait for the thread
IsAliveNever == FALSE

\* threading.Thread.is_alive()
IsAlive == thread \in {"loop", "read", "put"}

NoCall == [op |-> "none"]
NoResult == [outcome |-> "none", value |-> None]
Returned(v) == [outcome |-> "returned", value |-> v]
Raised(e) == [outcome |-> "raised", value |-> [exception |-> e]]

\* a get that reports the empty queue as a general error
TimeoutFrameGeneral ==
    DaliFrame(ZeroTime, 0, 0, DaliStatus.GENERAL,
              <<"queue is empty, timeout from get">>)

\* the frame get returns when queue.get raises queue.Empty
TimeoutFrame ==
    DaliFrame(ZeroTime, 0, 0, DaliStatus.TIMEOUT,
              <<"queue is empty, timeout from get">>)

\* the frame get returns when the queue held None
NoneFrame ==
    DaliFrame(ZeroTime, 0, 0, DaliStatus.GENERAL,
              <<"received None from queue">>)

(***************************************************************************)
(* Construction: DaliSerial.__init__ -> DaliInterface.__init__.            *)
(***************************************************************************)
Init ==
    /\ queue = <<>>
    /\ keep_running = FALSE
    /\ thread = "unstarted"
    /\ rx = None
    /\ port = <<>>
    /\ pc = [c \in Threads |-> IF c = Main THEN <<"init">> ELSE <<"idle">>]
    /\ \E start_receive \in BOOLEAN :
          call = [c \in Threads |->
                    IF c = Main
                    THEN [op |-> "__init__", start_receive |-> start_receive]
                    ELSE NoCall]
    /\ result = [c \in Threads |-> NoResult]
    /\ trace = [c \in Threads |-> <<>>]
    /\ constructed = FALSE
    /\ closed = FALSE
    /\ nlines = 0
    /\ nput = 0
    /\ ncalls = 0
    /\ nthreads = 0

\* The call of thread c ends with result r.
Finish(c, r) ==
    /\ pc' = [pc EXCEPT ![c] = <<"idle">>]
    /\ result' = [result EXCEPT ![c] = r]
    /\ constructed' = (constructed \/ call[c].op = "__init__")

Goto(c, label) ==
    /\ pc' = [pc EXCEPT ![c] = label]
    /\ UNCHANGED <<result, constructed>>

Log(c, event) == trace' = [trace EXCEPT ![c] = Append(@, event)]

\* a start that leaves the queue as it is
StartNoFlush(c) == Finish(c, Returned(None))

\* `self.flush_queue()` at the end of __start_receive
StartFlush(c) == Goto(c, <<"flush_empty">>)

\* __init__ after the queue and the flag are set: `if start_receive:
\* self.__start_receive()`, which starts the thread when the flag is
\* clear and goes on to flush_queue.
StartReceive(c) ==
    /\ pc[c] = <<"init">>
    /\ IF call[c].start_receive
       THEN IF ~keep_running
            THEN /\ keep_running' = TRUE
                 /\ thread' = "loop"
                 /\ nthreads' = nthreads + 1
                 /\ StartFlush(c)
            ELSE /\ Finish(c, Returned(None))
                 /\ UNCHANGED <<keep_running, thread, nthreads>>
       ELSE /\ Finish(c, Returned(None))
            /\ UNCHANGED <<keep_running, thread, nthreads>>
    /\ UNCHANGED <<queue, rx, port, call, trace, closed, nlines, nput, ncalls>>

(***************************************************************************)
(* The background thread: __read_worker_thread and DaliSerial.read_data.   *)
(***************************************************************************)
\* `while self.keep_running:`
ReadWorkerThread ==
    /\ thread = "loop"
    /\ thread' = IF keep_running THEN "read" ELSE "terminated"
    /\ UNCHANGED <<queue, keep_running, rx, port, pc, call, result, trace,
                   constructed, closed, nlines, nput, ncalls, nthreads>>

\* The lines in which the device reports the loopback of a command.
LoopbackLines == {EchoLine, OtherEchoLine}

\* read_data up to the call of queue.put: readline, strip, parse.  An
\* exception that parse raises ends the thread.  The device reports a
\* loopback only once a command has been written to it.  The transport
\* delivers at most `lines` non-empty lines.
ReadDataOf(lines) ==
    /\ thread = "read"
    /\ \E raw \in TransportLines :
          LET line == Strip(raw)
              parsed == Parse(line)
          IN  /\ raw \in LoopbackLines => port # <<>>
              /\ IF Len(line) > 0
                 THEN /\ nlines < lines
                      /\ nlines' = nlines + 1
                      /\ IF parsed.exc = "none"
                         THEN thread' = "put" /\ rx' = parsed.frame
                         ELSE thread' = "crashed" /\ rx' = rx
                 ELSE /\ thread' = "loop"
                      /\ UNCHANGED <<rx, nlines>>
    /\ UNCHANGED <<queue, keep_running, port, pc, call, result, trace,
                   constructed, closed, nput, ncalls, nthreads>>

ReadData == ReadDataOf(MaxLines)

\* self.queue.put(frame): waits while the queue is full
QueuePut ==
    /\ thread = "put"
    /\ Len(queue) < max_queue_size
    /\ queue' = Append(queue, rx)
    /\ rx' = None
    /\ thread' = "loop"
    /\ nput' = nput + 1
    /\ UNCHANGED <<keep_running, port, pc, call, result, trace, constructed,
                   closed, nlines, ncalls, nthreads>>

(***************************************************************************)
(* The calls the threads make once the object is constructed.              *)
(***************************************************************************)
Begin(c, newcall, label) ==
    /\ pc[c] = <<"idle">>
    /\ constructed
    /\ ncalls < MaxCalls
    /\ ncalls' = ncalls + 1
    /\ call' = [call EXCEPT ![c] = newcall]
    /\ result' = [result EXCEPT ![c] = NoResult]
    /\ trace' = [trace EXCEPT ![c] = <<>>]
    /\ pc' = [pc EXCEPT ![c] = label]
    /\ UNCHANGED <<queue, keep_running, thread, rx, port, constructed,
                   closed, nlines, nput, nthreads>>

\* The record of a call keeps what the caller could know when it made
\* the call: for get, `flushed` is the number of frames that were queued
\* when the flush_queue this thread has just returned from was called, -1
\* when its last call was no flush_queue; for flush_queue and
\* query_reply, `held` is the number of frames queued at the call and
\* `nput0` the number of frames enqueued up to then.
CallGet(c) ==
    \E timeout \in Timeouts :
        Begin(c, [op |-> "get", timeout |-> timeout,
                  flushed |-> IF call[c].op = "flush_queue"
                              THEN call[c].held ELSE -1],
              <<"get_running", "api">>)

CallFlushQueue(c) ==
    c = Main /\ Begin(c, [op |-> "flush_queue", held |-> Len(queue)],
                      <<"flush_empty">>)

CallTransmit(c) ==
    c = Main /\ \E frame \in Requests, block \in BOOLEAN :
        Begin(c, [op |-> "transmit", frame |-> frame, block |-> block],
              <<"write">>)

CallQueryReply(c) ==
    c = Main /\ \E request \in Requests :
        Begin(c, [op |-> "query_reply", frame |-> request,
                  held |-> Len(queue), nput0 |-> nput],
              <<"flush_empty">>)

CallClose(c) ==
    c = Main /\ Begin(c, [op |-> "close"], <<"close">>)

(***************************************************************************)
(* DaliInterface.flush_queue.                                              *)
(***************************************************************************)
\* a test that takes every queue for empty
QueueEmptyAlways == TRUE

\* self.queue.empty()
QueueEmpty == queue = <<>>

\* `while not self.queue.empty():` - with the queue found empty
\* flush_queue returns to __init__, to its caller, or into query_reply.
FlushEmpty(c) ==
    /\ pc[c] = <<"flush_empty">>
    /\ IF ~QueueEmpty
       THEN Goto(c, <<"flush_get">>) /\ UNCHANGED trace
       ELSE IF call[c].op = "query_reply"
       THEN Goto(c, <<"write">>) /\ Log(c, [ev |-> "flush"])
       ELSE Finish(c, Returned(None)) /\ Log(c, [ev |-> "flush"])
    /\ UNCHANGED <<queue, keep_running, thread, rx, port, call, closed,
                   nlines, nput, ncalls, nthreads>>

\* `self.queue.get()`: waits until the queue holds a frame
FlushGet(c) ==
    /\ pc[c] = <<"flush_get">>
    /\ queue # <<>>
    /\ queue' = Tail(queue)
    /\ Goto(c, <<"flush_empty">>)
    /\ UNCHANGED <<keep_running, thread, rx, port, call, trace, closed,
                   nlines, nput, ncalls, nthreads>>

(***************************************************************************)
(* DaliInterface.get.                                                      *)
(***************************************************************************)
\* a get that does not look at the flag
GetRunningUnchecked(c) ==
    /\ pc[c][1] = "get_running"
    /\ Goto(c, <<"get_queue", pc[c][2]>>)
    /\ UNCHANGED <<queue, keep_running, thread, rx, port, call, trace,
                   closed, nlines, nput, ncalls, nthreads>>

\* `if not self.keep_running: raise Exception(...)`; the exception ends
\* the call get was made from.
GetRunning(c) ==
    /\ pc[c][1] = "get_running"
    /\ IF ~keep_running
       THEN Finish(c, Raised("Exception"))
       ELSE Goto(c, <<"get_queue", pc[c][2]>>)
    /\ UNCHANGED <<queue, keep_running, thread, rx, port, call, trace,
                   closed, nlines, nput, ncalls, nthreads>>

\* the timeout get is called with at each of its call sites
TimeoutAt(c) ==
    IF pc[c][2] = "api" THEN call[c].timeout ELSE <<RECEIVE_TIMEOUT>>

\* what get returns for the item it took from the queue
GetReturn(rx_frame) == IF rx_frame = None THEN NoneFrame ELSE rx_frame

\* a loopback check that looks at the status alone
LoopbackMismatchStatusOnly(loopback, frame) ==
    loopback.status # DaliStatus.LOOPBACK

\* _check_loopback's condition for logging an unexpected loopback
LoopbackMismatch(loopback, frame) ==
    \/ loopback.status # DaliStatus.LOOPBACK
    \/ loopback.data # frame.data
    \/ loopback.length # loopback.length

\* a transmit that encodes its frame as a query
TransmitCommandAsQuery(frame) == build_command_string(frame, TRUE)

\* transmit's command string
TransmitCommand(frame) == build_command_string(frame, FALSE)

\* a query_reply that encodes its request as a plain send
QueryCommandAsSend(request) == build_command_string(request, FALSE)

\* query_reply's command string
QueryCommand(request) == build_command_string(request, TRUE)

\* transmit and query_reply after their loopback checks
AfterLoopback(c) ==
    IF call[c].op = "query_reply"
    THEN Goto(c, <<"get_running", "reply">>)
    ELSE Finish(c, Returned(None))

\* get returns frame f to the place it was called from
AfterGet(c, f) ==
    LET site == pc[c][2]
        checked == [ev |-> "loopback", frame |-> f,
                    logged |-> LoopbackMismatch(f, call[c].frame)]
    IN  CASE site = "api" ->
               Finish(c, Returned(f)) /\ Log(c, [ev |-> "get", frame |-> f])
          [] site = "reply" ->
               Finish(c, Returned(f)) /\ Log(c, [ev |-> "get", frame |-> f])
          [] site = "loopback1" ->
               /\ Log(c, checked)
               /\ IF call[c].frame.send_twice
                  THEN Goto(c, <<"get_running", "loopback2">>)
                  ELSE AfterLoopback(c)
          [] site = "loopback2" ->
               Log(c, checked) /\ AfterLoopback(c)

\* `self.queue.get(block=True, timeout=timeout)` and the rest of get.
\* queue.get raises ValueError for a negative timeout, returns the oldest
\* item when there is one, and raises queue.Empty when the timeout ends
\* with the queue empty; without a timeout it waits.
GetQueue(c) ==
    /\ pc[c][1] = "get_queue"
    /\ LET timeout == TimeoutAt(c)
       IN  IF timeout # <<>> /\ timeout[1] < 0
           THEN /\ Finish(c, Raised("ValueError"))
                /\ UNCHANGED <<queue, trace>>
           ELSE IF queue # <<>>
           THEN /\ queue' = Tail(queue)
                /\ AfterGet(c, GetReturn(Head(queue)))
           ELSE /\ timeout # <<>>
                /\ UNCHANGED queue
                /\ AfterGet(c, TimeoutFrame)
    /\ UNCHANGED <<keep_running, thread, rx, port, call, closed, nlines,
                   nput, ncalls, nthreads>>

(***************************************************************************)
(* DaliSerial.transmit and DaliSerial.query_reply.                         *)
(***************************************************************************)
\* `self.port.write(command_string.encode("utf-8"))` and the branch on
\* block that follows it in transmit
PortWrite(c) ==
    /\ pc[c] = <<"write">>
    /\ LET command_string ==
               IF call[c].op = "query_reply"
               THEN QueryCommand(call[c].frame)
               ELSE TransmitCommand(call[c].frame)
       IN  /\ port' = command_string
           /\ Log(c, [ev |-> "write", command |-> command_string])
    /\ IF call[c].op = "transmit" /\ ~call[c].block
       THEN Finish(c, Returned(None))
       ELSE Goto(c, <<"get_running", "loopback1">>)
    /\ UNCHANGED <<queue, keep_running, thread, rx, call, closed, nlines,
                   nput, ncalls, nthreads>>

(***************************************************************************)
(* DaliInterface.close.                                                    *)
(***************************************************************************)
\* `if not self.keep_running: return`, else `self.keep_running = False`
Close(c) ==
    /\ pc[c] = <<"close">>
    /\ IF ~keep_running
       THEN Finish(c, Returned(None)) /\ UNCHANGED keep_running
       ELSE keep_running' = FALSE /\ Goto(c, <<"close_join">>)
    /\ Log(c, [ev |-> "close", was_running |-> keep_running])
    /\ UNCHANGED <<queue, thread, rx, port, call, closed, nlines, nput,
                   ncalls, nthreads>>

\* `while self.thread.is_alive(): time.sleep(...)`
CloseJoin(c) ==
    /\ pc[c] = <<"close_join">>
    /\ ~IsAlive
    /\ closed' = TRUE
    /\ Finish(c, Returned(None))
    /\ UNCHANGED <<queue, keep_running, thread, rx, port, call, trace,
                   nlines, nput, ncalls, nthreads>>

(***************************************************************************)
(* The specification.                                                      *)
(***************************************************************************)
Next ==
    \/ \E c \in Threads : StartReceive(c)
    \/ ReadWorkerThread
    \/ ReadData
    \/ QueuePut
    \/ \E c \in Threads : CallGet(c)
    \/ \E c \in Threads : CallFlushQueue(c)
    \/ \E c \in Threads : CallTransmit(c)
    \/ \E c \in Threads : CallQueryReply(c)
    \/ \E c \in Threads : CallClose(c)
    \/ \E c \in Threads : FlushEmpty(c)
    \/ \E c \in Threads : FlushGet(c)
    \/ \E c \in Threads : GetRunning(c)
    \/ \E c \in Threads : GetQueue(c)
    \/ \E c \in Threads : PortWrite(c)
    \/ \E c \in Threads : Close(c)
    \/ \E c \in Threads : CloseJoin(c)

Spec == Init /\ [][Next]_vars

(***************************************************************************)
(* Properties.                                                             *)
(***************************************************************************)
\* the kinds of the events of a trace, in order
Events(tr) == [i \in 1..Len(tr) |-> tr[i].ev]

IsPrefix(a, b) == Len(a) <= Len(b) /\ a = SubSeq(b, 1, Len(a))

\* thread c moves on from where it stands
Steps(c) == pc'[c] # pc[c]

\* C1: parse returns a frame for every line read_data hands it, so the
\* background thread never ends with an exception of parse.
C1_ParseNeverRaises == thread # "crashed"

\* C2: with the flag set, get does not raise; a get whose timeout ends on
\* an empty queue returns a frame of status TIMEOUT and leaves the queue
\* as it is, and a get that finds frames returns the oldest one and
\* removes just that one.
C2_GetTimeoutOrOldest ==
    [][\A c \in Threads :
         /\ (pc[c][1] = "get_running" /\ keep_running /\ Steps(c))
               => pc'[c] = <<"get_queue", pc[c][2]>>
         /\ (/\ pc[c] = <<"get_queue", "api">>
             /\ call[c].timeout = <<>> \/ call[c].timeout[1] >= 0
             /\ Steps(c))
               => IF queue = <<>>
                  THEN /\ result'[c].outcome = "returned"
                       /\ result'[c].value.status = DaliStatus.TIMEOUT
                       /\ queue' = queue
                  ELSE /\ result'[c] = Returned(Head(queue))
                       /\ queue' = Tail(queue)]_vars

\* C2 witness: one get has returned a TIMEOUT frame and another get a
\* frame that was queued.
C2_Witness ==
    \E c, d \in Threads :
        /\ call[c].op = "get" /\ result[c].outcome = "returned"
        /\ result[c].value.status = DaliStatus.TIMEOUT
        /\ call[d].op = "get" /\ result[d].outcome = "returned"
        /\ result[d].value.status = DaliStatus.FRAME

\* C3: with the flag clear, get raises and leaves the queue as it is.
C3_GetFailsClosed ==
    [][\A c \in Threads :
         (pc[c][1] = "get_running" /\ ~keep_running /\ Steps(c))
            => /\ result'[c].outcome = "raised"
               /\ pc'[c] = <<"idle">>
               /\ queue' = queue]_vars

\* C3 witness: after close, a get has raised although a frame is queued.
C3_Witness ==
    \E c \in Threads :
        /\ closed
        /\ queue # <<>>
        /\ call[c].op = "get"
        /\ result[c] = Raised("Exception")

\* C4: once a close() that found the engine running has returned, the
\* flag is clear, the background thread is not alive and nothing is
\* enqueued any more; a close() that finds the flag clear changes nothing.
C4_CloseStopsReceiver ==
    [][/\ closed' => ~keep_running' /\ thread' \in {"terminated", "crashed"}
       /\ closed => /\ nput' = nput
                    /\ \/ queue' = queue
                       \/ queue # <<>> /\ queue' = Tail(queue)
       /\ \A c \in Threads :
            (pc[c] = <<"close">> /\ ~keep_running /\ Steps(c))
               => /\ result'[c] = Returned(None)
                  /\ UNCHANGED <<queue, keep_running, thread, rx, port,
                                 closed, nlines, nput>>]_vars

\* C4 witness: a second close() has returned after the first one stopped
\* the thread, while the transport still has lines to deliver.
C4_Witness ==
    /\ closed
    /\ nlines < MaxLines
    /\ call[Main].op = "close"
    /\ result[Main] = Returned(None)
    /\ trace[Main] = <<[ev |-> "close", was_running |-> FALSE]>>

\* C5: every non-empty line the background thread has read is a frame it
\* has enqueued or is about to enqueue.
C5_NoLineDropped == nlines = nput + (IF thread = "put" THEN 1 ELSE 0)

\* the steps query_reply takes for a request
QueryReplySteps(request) ==
    <<"flush", "write", "loopback">>
        \o (IF request.send_twice THEN <<"loopback">> ELSE <<>>)
        \o <<"get">>

\* what the trace of a query_reply call shows in every state
QueryReplyTraceOk(c) ==
    call[c].op = "query_reply" =>
       /\ IsPrefix(Events(trace[c]), QueryReplySteps(call[c].frame))
       /\ \A i \in 1..Len(trace[c]) :
             trace[c][i].ev = "write" =>
                trace[c][i].command = build_command_string(call[c].frame, TRUE)
       /\ result[c].outcome = "returned" =>
             /\ Events(trace[c]) = QueryReplySteps(call[c].frame)
             /\ result[c].value = trace[c][Len(trace[c])].frame

\* C6: query_reply flushes, writes the request encoded as a query, makes
\* one loopback check (two for send_twice) and returns the result of one
\* more get: the oldest queued frame at that moment, or a TIMEOUT frame.
C6_QueryReplyOrder ==
    [][\A c \in Threads :
         /\ QueryReplyTraceOk(c)'
         /\ (pc[c] = <<"get_queue", "reply">> /\ Steps(c))
               => IF queue = <<>>
                  THEN result'[c].value.status = DaliStatus.TIMEOUT
                  ELSE result'[c] = Returned(Head(queue))]_vars

\* C6 witness: a query has returned the backward frame that followed the
\* loopback echo of its request.
C6_Witness ==
    \E c \in Threads :
        /\ call[c].op = "query_reply"
        /\ ~call[c].frame.send_twice
        /\ result[c].outcome = "returned"
        /\ result[c].value.status = DaliStatus.FRAME
        /\ trace[c][3].frame.status = DaliStatus.LOOPBACK
        /\ ~trace[c][3].logged

\* C7: query_reply never returns the loopback echo of its own request.
C7_ReplyIsNotOwnEcho ==
    \A c \in Threads :
        (call[c].op = "query_reply" /\ result[c].outcome = "returned")
           => ~ /\ result[c].value.status = DaliStatus.LOOPBACK
                /\ result[c].value.data = call[c].frame.data
                /\ result[c].value.length = call[c].frame.length

\* the steps transmit takes for a frame
TransmitSteps(frame, block) ==
    <<"write">>
        \o (IF block THEN <<"loopback">> ELSE <<>>)
        \o (IF block /\ frame.send_twice THEN <<"loopback">> ELSE <<>>)

\* what the trace of a transmit call shows in every state
TransmitTraceOk(c) ==
    call[c].op = "transmit" =>
       /\ IsPrefix(Events(trace[c]), TransmitSteps(call[c].frame, call[c].block))
       /\ \A i \in 1..Len(trace[c]) :
             trace[c][i].ev = "write" =>
                trace[c][i].command = build_command_string(call[c].frame, FALSE)
       /\ result[c].outcome = "returned" =>
             Events(trace[c]) = TransmitSteps(call[c].frame, call[c].block)

\* C8: transmit writes one command, encoded as a send; without block it
\* makes no get and leaves the queue alone; with block it makes one
\* loopback check, and two for a send_twice frame.
C8_TransmitEffect ==
    [][\A c \in Threads :
         /\ TransmitTraceOk(c)'
         /\ (call[c].op = "transmit" /\ pc[c] = <<"write">> /\ Steps(c))
               => /\ port' = build_command_string(call[c].frame, FALSE)
                  /\ queue' = queue
                  /\ ~call[c].block => result'[c] = Returned(None)]_vars

\* C8 witness: a blocking transmit of a send_twice frame has returned
\* after its two loopback checks.
C8_Witness ==
    \E c \in Threads :
        /\ call[c].op = "transmit"
        /\ call[c].block
        /\ call[c].frame.send_twice
        /\ result[c] = Returned(None)
        /\ Len(trace[c]) = 3

\* the loopback checks of a trace have logged just the frames that are
\* no LOOPBACK frame or carry other data than the transmitted frame
LoopbackLogOk(c) ==
    \A i \in 1..Len(trace[c]) :
        trace[c][i].ev = "loopback" =>
           (trace[c][i].logged <=>
               \/ trace[c][i].frame.status # DaliStatus.LOOPBACK
               \/ trace[c][i].frame.data # call[c].frame.data)

\* C9: a loopback check logs a mismatch exactly when the frame it got is
\* not a LOOPBACK frame or carries other data than the transmitted frame;
\* whatever it got, the call goes on: to the second check, to the reply
\* get, or to its return.
C9_LoopbackMismatchOnlyLogged ==
    [][\A c \in Threads :
         /\ LoopbackLogOk(c)'
         /\ (/\ pc[c][1] = "get_queue"
             /\ pc[c][2] \in {"loopback1", "loopback2"}
             /\ Steps(c))
               => IF pc[c][2] = "loopback1" /\ call[c].frame.send_twice
                  THEN pc'[c] = <<"get_running", "loopback2">>
                  ELSE IF call[c].op = "query_reply"
                  THEN pc'[c] = <<"get_running", "reply">>
                  ELSE result'[c] = Returned(None)]_vars

\* C9 witness: a query has returned although its loopback check got a
\* TIMEOUT frame, and a loopback frame of another length went unlogged.
C9_Witness ==
    \E c \in Threads :
        /\ call[c].op = "query_reply"
        /\ call[c].frame.send_twice
        /\ result[c].outcome = "returned"
        /\ trace[c][3].logged
        /\ trace[c][3].frame.status = DaliStatus.TIMEOUT
        /\ ~trace[c][4].logged
        /\ trace[c][4].frame.length # call[c].frame.length

\* C10: flush_queue never waits in queue.get on an empty queue.
C10_FlushNeverWaits ==
    \A c \in Threads : pc[c] = <<"flush_get">> => queue # <<>>

\* C11 as stated: a get(timeout=0) made right after a flush_queue() that
\* was called with at least one frame queued returns a TIMEOUT frame.
C11_FlushThenGetTimesOut ==
    \A c \in Threads :
        (/\ call[c].op = "get"
         /\ call[c].timeout = <<0>>
         /\ call[c].flushed >= 1
         /\ result[c].outcome = "returned")
           => result[c].value.status = DaliStatus.TIMEOUT

\* C11 amended: flush_queue returns only from an empty queue, the queue
\* gets its next frame only from the background thread, and the
\* get(timeout=0) that follows the flush returns a TIMEOUT frame when the
\* queue is still empty and else the oldest frame enqueued since.
C11_FlushThenGetUnlessEnqueued ==
    [][/\ \A c \in Threads :
            /\ (/\ pc[c] = <<"flush_empty">>
                /\ Steps(c)
                /\ pc'[c] # <<"flush_get">>)
                  => queue = <<>> /\ queue' = <<>>
            /\ (/\ pc[c] = <<"get_queue", "api">>
                /\ call[c].timeout = <<0>>
                /\ call[c].flushed >= 1
                /\ Steps(c))
                  => IF queue = <<>>
                     THEN /\ result'[c].outcome = "returned"
                          /\ result'[c].value.status = DaliStatus.TIMEOUT
                     ELSE result'[c] = Returned(Head(queue))
       /\ (queue = <<>> /\ queue' # <<>>)
            => thread = "put" /\ nput' = nput + 1 /\ queue' = <<rx>>]_vars

\* C11 witness: the get(timeout=0) after a flush_queue() that found
\* frames queued has returned a TIMEOUT frame.
C11_Witness ==
    \E c \in Threads :
        /\ call[c].op = "get"
        /\ call[c].timeout = <<0>>
        /\ call[c].flushed >= 1
        /\ result[c].outcome = "returned"
        /\ result[c].value.status = DaliStatus.TIMEOUT

(***************************************************************************)
(* DaliSerial.parse on its own: a static method, applied to one line.      *)
(***************************************************************************)
\* the state before any object is constructed, with thread Main about to
\* make the call newcall
StaticInit(newcall, label) ==
    /\ queue = <<>>
    /\ keep_running = FALSE
    /\ thread = "unstarted"
    /\ rx = None
    /\ port = <<>>
    /\ pc = [c \in Threads |-> IF c = Main THEN label ELSE <<"idle">>]
    /\ call = [c \in Threads |-> IF c = Main THEN newcall ELSE NoCall]
    /\ result = [c \in Threads |-> NoResult]
    /\ trace = [c \in Threads |-> <<>>]
    /\ constructed = FALSE
    /\ closed = FALSE
    /\ nlines = 0
    /\ nput = 0
    /\ ncalls = 0
    /\ nthreads = 0

\* The fields a line is put together from: well-formed ones and ones that
\* are no hexadecimal number.
TimestampFields ==
    {<<"0", "0", "0", "0", "0", "0", "0", "1">>, <<"0", "0", "0", "0", "0", "3", "E", "8">>, <<"0", "0", "0", "0", "z", "z", "0", "1">>}
MarkerFields == {"-", ">"}
LengthFields == {<<"1", "0">>, <<"8", "1">>, <<"z", "z">>}
DataFields ==
    {<<"0", "0", "0", "0", "0", "0", "0", "1">>, <<"7", "F", "F", "F", "F", "F", "F", "F">>, <<"0", "0", "0", "0", "g", "g", "0", "1">>}

\* lines without braces, with one brace, with a payload cut short
OddLines ==
    {<<"g", "a", "r", "b", "a", "g", "e">>, <<"{", "}">>, <<"{", "1", "2", "}">>, <<"}", "{">>,
     <<"{", "0", "0", "0", "0", "0", "0", "0", "1", ">", "1", "0", " ", "0", "0", "0", "0", "0", "0", "0", "1">>,
     <<"0", "0", "0", "0", "0", "0", "0", "1", ">", "1", "0", " ", "0", "0", "0", "0", "0", "0", "0", "1", "}">>,
     <<"{", "0", "0", "0", "0", "0", "0", "0", "1", ">", "1", "0", "}">>,
     <<"{", "0", "0", "0", "0", "0", "0", "0", "1", ">", "1", "0", " ", "0", "0", "0", "1", "}">>}

\* the lines parse is applied to
ParseLines ==
    {<<"{">> \o ts \o <<m>> \o len \o <<" ">> \o dat \o <<"}">> :
        ts \in TimestampFields, m \in MarkerFields,
        len \in LengthFields, dat \in DataFields}
      \cup OddLines

InitParse ==
    \E line \in ParseLines :
        StaticInit([op |-> "parse", line |-> line], <<"parse">>)

\* DaliSerial.parse(line)
ParseCall ==
    /\ pc[Main] = <<"parse">>
    /\ LET parsed == Parse(call[Main].line)
       IN  IF parsed.exc = "none"
           THEN Finish(Main, Returned(parsed.frame))
           ELSE Finish(Main, Raised(parsed.exc))
    /\ UNCHANGED <<queue, keep_running, thread, rx, port, call, trace,
                   closed, nlines, nput, ncalls, nthreads>>

NextParse == ParseCall

SpecParse == InitParse /\ [][NextParse]_vars

\* C12: a frame that parse returns with status GENERAL carries the
\* message "value error" and the zero defaults in timestamp, length and
\* data.
C12_FailureKeepsDefaults ==
    (call[Main].op = "parse" /\ result[Main].outcome = "returned"
        /\ result[Main].value.status = DaliStatus.GENERAL)
      => /\ result[Main].value.message = <<"value error">>
         /\ result[Main].value.timestamp = ZeroTime
         /\ result[Main].value.length = 0
         /\ result[Main].value.data = 0

(***************************************************************************)
(* DaliSerial.__get_status_and_last_error on its own.                      *)
(***************************************************************************)
\* every code two hexadecimal digits can give
ClassifyLengths == 0..255

\* data values: 0, 0x030A, the ends of the bit field and of the timer
\* field, and values with bits above the timer field
ClassifyData ==
    {0, 778, 255, 256, 65535, 268435455, 268435456, 305419896, 2147483647}

InitClassify ==
    \E length \in ClassifyLengths, data \in ClassifyData,
       loopback \in BOOLEAN :
        StaticInit([op |-> "classify", length |-> length, data |-> data,
                    loopback |-> loopback], <<"classify">>)

\* status, message = DaliSerial.__get_status_and_last_error(...)
ClassifyCall ==
    /\ pc[Main] = <<"classify">>
    /\ LET sm == GetStatusAndLastError(call[Main].length, call[Main].data,
                                       call[Main].loopback)
       IN  Finish(Main, Returned([status |-> sm[1], message |-> sm[2]]))
    /\ UNCHANGED <<queue, keep_running, thread, rx, port, call, trace,
                   closed, nlines, nput, ncalls, nthreads>>

NextClassify == ClassifyCall

SpecClassify == InitClassify /\ [][NextClassify]_vars

\* the decision table of the device protocol
TableStatus(length, loopback) ==
    CASE length \in 0..32 ->
            IF loopback THEN DaliStatus.LOOPBACK ELSE DaliStatus.FRAME
      [] length \in 33..128 -> DaliStatus.OK
      [] length = 129 -> DaliStatus.TIMEOUT
      [] length \in {130, 131} -> DaliStatus.TIMING
      [] length \in {132, 133, 134} -> DaliStatus.TIMING
      [] length = 145 -> DaliStatus.FAILURE
      [] length = 146 -> DaliStatus.RECOVER
      [] length \in 160..163 -> DaliStatus.INTERFACE
      [] OTHER -> DaliStatus.UNDEFINED

\* C13: the classifier gives the status of the decision table for every
\* code 0..255, the collision codes carry the collision message, and
\* above 32 the loopback flag changes neither status nor message.
C13_ClassifierMatchesTable ==
    (call[Main].op = "classify" /\ result[Main].outcome = "returned")
      => LET length == call[Main].length
             got == result[Main].value
             flipped == GetStatusAndLastError(length, call[Main].data,
                                              ~call[Main].loopback)
         IN  /\ got.status = TableStatus(length, call[Main].loopback)
             /\ length \in {132, 133, 134}
                   => got.message = <<"ERROR: COLLISION DETECTED">>
             /\ length > 32
                   => got.status = flipped[1] /\ got.message = flipped[2]

\* C13 witness: the codes 0x87, 0x90 and 0xA4 have no row of their own;
\* 0xA4 has been classified UNDEFINED.
C13_Witness ==
    /\ call[Main].op = "classify"
    /\ call[Main].length = 164
    /\ result[Main].outcome = "returned"
    /\ result[Main].value.status = DaliStatus.UNDEFINED

\* the number a sequence of decimal digits stands for
RECURSIVE DecValue(_)
DecValue(s) ==
    IF s = <<>> THEN 0
    ELSE 10 * DecValue(SubSeq(s, 1, Len(s) - 1))
           + (CHOOSE d \in 0..9 : DecChars[d + 1] = s[Len(s)])

\* C19: for the codes 0x82 and 0x83 the status is TIMING and the message
\* names the phase, then the bit, data mod 256, then the time,
\* (data div 256) mod 2^20, in decimal digits.
C19_TimingMessage ==
    (/\ call[Main].op = "classify"
     /\ call[Main].length \in {130, 131}
     /\ result[Main].outcome = "returned")
      => LET msg == result[Main].value.message
             data == call[Main].data
             k == CHOOSE i \in 1..Len(msg) : msg[i] = " - TIME: "
         IN  /\ result[Main].value.status = DaliStatus.TIMING
             /\ msg[1] = IF call[Main].length = 130
                         THEN "ERROR TIMING: START - BIT: "
                         ELSE "ERROR TIMING: DATA - BIT: "
             /\ \E i \in 1..Len(msg) : msg[i] = " - TIME: "
             /\ msg[Len(msg)] = " USEC"
             /\ k > 2 /\ k < Len(msg) - 1
             /\ \A i \in (2..(k - 1)) \cup ((k + 1)..(Len(msg) - 1)) :
                    \E d \in 0..9 : DecChars[d + 1] = msg[i]
             /\ DecValue(SubSeq(msg, 2, k - 1)) = data % 256
             /\ DecValue(SubSeq(msg, k + 1, Len(msg) - 1))
                    = (data \div 256) % 1048576

\* C19 witness: data 0x030A with code 0x82 has given bit 10, time 3.
C19_Witness ==
    /\ call[Main].op = "classify"
    /\ call[Main].length = 130
    /\ call[Main].data = 778
    /\ result[Main].outcome = "returned"
    /\ result[Main].value.message =
          <<"ERROR TIMING: START - BIT: ", "1", "0", " - TIME: ", "3", " USEC">>

(***************************************************************************)
(* DaliInterface.build_command_string on its own.                          *)
(***************************************************************************)
\* field values of the frames to encode: lengths around the DALI frame
\* sizes, priorities of one and two digits, data of one to eight
\* hexadecimal digits
EncodeLengths == {0, 8, 16, 24, 25, 32, 255}
EncodePriorities == {0, 2, 5, 10}
EncodeData == {0, 1, 10, 255, 11259375, 2147483647}

InitEncode ==
    \E length \in EncodeLengths, data \in EncodeData,
       priority \in EncodePriorities, send_twice \in BOOLEAN,
       is_query \in BOOLEAN :
        StaticInit([op |-> "build_command_string",
                    frame |-> RequestFrame(length, data, priority, send_twice),
                    is_query |-> is_query], <<"encode">>)

\* DaliInterface.build_command_string(frame, is_query)
EncodeCall ==
    /\ pc[Main] = <<"encode">>
    /\ Finish(Main, Returned(build_command_string(call[Main].frame,
                                                  call[Main].is_query)))
    /\ UNCHANGED <<queue, keep_running, thread, rx, port, call, trace,
                   closed, nlines, nput, ncalls, nthreads>>

NextEncode == EncodeCall

SpecEncode == InitEncode /\ [][NextEncode]_vars

\* the number a sequence of uppercase hexadecimal digits stands for
RECURSIVE UpperHexValue(_)
UpperHexValue(s) ==
    IF s = <<>> THEN 0
    ELSE 16 * UpperHexValue(SubSeq(s, 1, Len(s) - 1))
           + (CHOOSE d \in 0..15 : HexChars[d + 1] = s[Len(s)])

\* s is n in uppercase hexadecimal digits without leading zeros
IsHexOf(s, n) ==
    /\ s # <<>>
    /\ \A i \in 1..Len(s) : \E d \in 0..15 : HexChars[d + 1] = s[i]
    /\ Len(s) > 1 => s[1] # "0"
    /\ UpperHexValue(s) = n

\* s is n in decimal digits without leading zeros
IsDecOf(s, n) ==
    /\ s # <<>>
    /\ \A i \in 1..Len(s) : \E d \in 0..9 : DecChars[d + 1] = s[i]
    /\ Len(s) > 1 => s[1] # "0"
    /\ DecValue(s) = n

\* C14: the command string is Y, the data in hexadecimal and CR for a
\* frame of length 8, and otherwise Q or S, the priority, a space, the
\* length in hexadecimal, + or a space, the data in hexadecimal and CR.
C14_CommandStringFormat ==
    (call[Main].op = "build_command_string"
        /\ result[Main].outcome = "returned")
      => LET frame == call[Main].frame
             r == result[Main].value
             n == Len(r)
         IN  IF frame.length = 8
             THEN /\ n >= 3
                  /\ r[1] = "Y"
                  /\ IsHexOf(SubSeq(r, 2, n - 1), frame.data)
                  /\ r[n] = "\r"
             ELSE /\ n >= 7
                  /\ r[1] = IF call[Main].is_query THEN "Q" ELSE "S"
                  /\ r[n] = "\r"
                  /\ \E i, j \in 3..(n - 2) :
                        /\ i + 1 < j
                        /\ IsDecOf(SubSeq(r, 2, i - 1), frame.priority)
                        /\ r[i] = " "
                        /\ IsHexOf(SubSeq(r, i + 1, j - 1), frame.length)
                        /\ r[j] = IF frame.send_twice THEN "+" ELSE " "
                        /\ IsHexOf(SubSeq(r, j + 1, n - 1), frame.data)

\* C14 witness: the send_twice query of 16 bits, priority 10, data
\* 0xABCDEF has been encoded.
C14_Witness ==
    /\ call[Main].op = "build_command_string"
    /\ call[Main].is_query
    /\ call[Main].frame.send_twice
    /\ call[Main].frame.length = 16
    /\ result[Main] =
          Returned(<<"Q", "1", "0", " ", "1", "0", "+",
                     "A", "B", "C", "D", "E", "F", "\r">>)

\* C15: the command string of a frame of length 8 is the same for every
\* priority, send_twice and is_query, and no priority digit, + or space
\* goes on the wire.
C15_BackwardFrameOnlyData ==
    (/\ call[Main].op = "build_command_string"
     /\ call[Main].frame.length = 8
     /\ result[Main].outcome = "returned")
      => /\ \A priority \in EncodePriorities, send_twice \in BOOLEAN,
              is_query \in BOOLEAN :
                build_command_string(
                    [call[Main].frame EXCEPT !.priority = priority,
                                             !.send_twice = send_twice],
                    is_query) = result[Main].value
         /\ \A i \in 1..Len(result[Main].value) :
                result[Main].value[i] \notin {"+", " ", "Q", "S"}

\* C15 witness: a send_twice query of length 8 and priority 5 has been
\* encoded without priority and without the send_twice mark.
C15_Witness ==
    /\ call[Main].op = "build_command_string"
    /\ call[Main].frame.length = 8
    /\ call[Main].frame.send_twice
    /\ call[Main].frame.priority = 5
    /\ call[Main].is_query
    /\ result[Main] = Returned(<<"Y", "F", "F", "\r">>)

(***************************************************************************)
(* Shutdown under backpressure: an engine nobody takes frames from, whose  *)
(* caller only closes it, on a transport that delivers one line more than  *)
(* the queue holds.                                                        *)
(***************************************************************************)
ReadDataBurst == ReadDataOf(max_queue_size + 1)

NextShutdown ==
    \/ StartReceive(Main)
    \/ ReadWorkerThread
    \/ ReadDataBurst
    \/ QueuePut
    \/ FlushEmpty(Main)
    \/ FlushGet(Main)
    \/ CallClose(Main)
    \/ Close(Main)
    \/ CloseJoin(Main)

SpecShutdown == Init /\ [][NextShutdown]_vars

\* C16: a close() that waits for the background thread is not waiting
\* for a thread that itself waits in queue.put on a full queue, which
\* nobody empties: the thread gets to its next test of the flag.
C16_CloseNeverStuck ==
    \A c \in Threads :
        pc[c] = <<"close_join">>
           => ~(thread = "put" /\ Len(queue) >= max_queue_size)

\* C17: while the running flag is set, the background thread is alive: in
\* its loop, in read_data, or in read_data's put.
C17_ThreadAliveWhileRunning ==
    keep_running => thread \in {"loop", "read", "put"}

\* C18: no engine ever has more than one background thread; the start
\* step changes nothing when the flag is set, and otherwise sets the
\* flag, launches one thread and goes on to flush the queue, so that
\* __init__ returns from an empty queue.
C18_StartOnce ==
    [][/\ nthreads' <= 1
       /\ keep_running' => nthreads' = 1
       /\ \A c \in Threads :
            /\ (pc[c] = <<"init">> /\ call[c].start_receive /\ Steps(c))
                  => IF keep_running
                     THEN UNCHANGED <<keep_running, thread, nthreads, queue>>
                     ELSE /\ keep_running'
                          /\ thread' = "loop"
                          /\ nthreads' = nthreads + 1
                          /\ pc'[c] = <<"flush_empty">>
            /\ (/\ call[c].op = "__init__"
                /\ call[c].start_receive
                /\ pc[c] # <<"idle">>
                /\ pc'[c] = <<"idle">>)
                  => queue = <<>> /\ queue' = <<>>]_vars

\* C18 witness: __init__ has returned with the one thread started, and
\* the frame that thread had enqueued in the meantime was discarded.
C18_Witness ==
    /\ call[Main].op = "__init__"
    /\ call[Main].start_receive
    /\ result[Main] = Returned(None)
    /\ \A c \in Threads \ {Main} : call[c] = NoCall
    /\ nthreads = 1
    /\ nput >= 1
    /\ queue = <<>>

\* C20: the frames are numbered in the order the background thread
\* enqueued them; the frame a loopback check or the reply get of
\* query_reply takes is a later one than every frame that was enqueued
\* before query_reply was called, and the command is written on an empty
\* queue.  This holds with one consumer thread and with more.
C20_NoStaleFrameUsed ==
    [][\A c \in Threads :
         call[c].op = "query_reply" =>
            /\ (pc[c][1] = "get_queue" /\ queue # <<>> /\ Steps(c))
                  => nput - Len(queue) + 1 > call[c].nput0
            /\ (pc[c] = <<"flush_empty">> /\ pc'[c] = <<"write">>)
                  => queue = <<>>]_vars

\* C20 witness: with no other consumer, a query_reply called on a queue
\* that held a frame has used a frame as loopback echo and returned.
C20_Witness ==
    /\ \A c \in Threads \ {Main} : call[c] = NoCall
    /\ call[Main].op = "query_reply"
    /\ call[Main].held >= 1
    /\ result[Main].outcome = "returned"
    /\ trace[Main][3].frame.status # DaliStatus.TIMEOUT

====
